---- MODULE Spec2Model ----
(***************************************************************************)
(* Model of the nvim-oxi binding layer: the error record (oxi-types        *)
(* error.rs), the NonOwning wrapper (non_owning.rs) and the typed wrapper  *)
(* functions of oxi-api (global.rs, win_config.rs).                        *)
(*                                                                         *)
(* A wrapper invocation runs in three steps that cannot be interleaved     *)
(* with anything else:                                                     *)
(*   entry  (the action named after the wrapper): the code up to the       *)
(*          `unsafe { nvim_xxx(..) }` call: owned inputs are built, the    *)
(*          error record is created, arguments are converted;              *)
(*   BoundaryCall: the host function runs, reads its borrowed arguments,   *)
(*          changes the editor state, writes the error record, returns;    *)
(*   Return: the code after the call: choose!, conversions, drops.         *)
(* pc is the position of the single caller thread.                         *)
(***************************************************************************)
EXTENDS Integers, Sequences, FiniteSets, TLC

\* ------------------------------------------------------------------ bounds
\* Width, in bits, of the host Integer (i64 in the source, scaled down).
IntegerBits == 3
\* Longest Array / Dictionary the host returns.
MaxLen == 2
\* Bytes the host's input buffer holds (65535 in the editor, scaled down).
MaxQueue == 2

IntegerMin == 0 - 2 ^ (IntegerBits - 1)
IntegerMax == 2 ^ (IntegerBits - 1) - 1
Integer == IntegerMin .. IntegerMax
\* c_int handles (i32) are narrower than Integer on both sides.
I32Min == 0 - 2 ^ (IntegerBits - 2)
I32Max == 2 ^ (IntegerBits - 2) - 1
I32 == I32Min .. I32Max
\* u32 reaches above i32 and stays below the largest Integer.
U32Max == IntegerMax - 1
U32 == 0 .. U32Max
\* usize (64 bit) is wider than Integer on the positive side.
UsizeMax == 2 ^ IntegerBits - 1
Usize == 0 .. UsizeMax

Null == "null"
Messages == {"E5555"}
VarNames == {"foo", "bar"}
Strs == {"", "a"}

\* ------------------------------------------------------------ error record
ErrorTypeNone == -1
ErrorTypeException == 0
ErrorTypeValidation == 1

\* A record as zero-initialised memory would give it: type 0 is Exception.
ErrorZeroed == [type |-> ErrorTypeException, msg |-> Null]
\* Error::new()
ErrorNew == [type |-> ErrorTypeNone, msg |-> Null]

\* is_err matching the exception type only.
is_err_exception_only(e) == e.type = ErrorTypeException

\* Error::is_err
is_err(e) == e.type # ErrorTypeNone

\* Rust strings as byte sequences: NUL, 'a', 'b'.
Bytes == {0, 97, 98}
RustStrings == UNION {[1..n -> Bytes] : n \in 0..MaxLen}

Chr(b) == IF b = 97 THEN "a" ELSE "b"

RECURSIVE c_chars(_)
c_chars(bs) == IF bs = <<>> THEN "" ELSE Chr(Head(bs)) \o c_chars(Tail(bs))

\* A C string cut at the first NUL byte instead of being refused.
RECURSIVE CString_new_truncating(_)
CString_new_truncating(s) ==
  IF s = <<>> \/ Head(s) = 0 THEN ""
  ELSE Chr(Head(s)) \o CString_new_truncating(Tail(s))

\* CString::new(s).unwrap_or_default(): CString::new refuses a string with
\* a NUL byte in it, and the default CString is the empty one.  Either way
\* into_raw gives a pointer that is not null.
CString_new_or_default(s) ==
  IF \E i \in 1..Len(s) : s[i] = 0 THEN "" ELSE c_chars(s)

\* Error::from_str
from_str(s) == [type |-> ErrorTypeException, msg |-> CString_new_or_default(s)]

\* Error::from_err: from_str of what the error displays as.
StdErrors == {[to_string |-> s] : s \in RustStrings}
from_err(e) == from_str(e.to_string)

\* The frame holds no error record (the wrapper passes none to the host).
NoRecord == [type |-> ErrorTypeNone, msg |-> "no-record"]

HostErrors == {[type |-> t, msg |-> m] :
                 t \in {ErrorTypeException, ErrorTypeValidation},
                 m \in Messages \cup {Null}}

\* ------------------------------------------------- Object and conversions
NilObj == [kind |-> "nil", val |-> "nil"]
BoolObj(b) == [kind |-> "boolean", val |-> b]
IntObj(n) == [kind |-> "integer", val |-> n]
StrObj(s) == [kind |-> "string", val |-> s]
DictObj(d) == [kind |-> "dictionary", val |-> d]
FunObj(f) == [kind |-> "luaref", val |-> f]

\* A typed value of the calling side: its type and its payload.
TV(ty, v) == [ty |-> ty, v |-> v]
Unit == TV("unit", "()")
VarTypes == {"i64", "usize", "String"}
\* The values the callers of set_var and set_option pass.
VarValues == {TV("i64", IntegerMin), TV("usize", 1), TV("usize", UsizeMax),
              TV("String", "a")}
BoolValues == {TV("bool", TRUE), TV("bool", FALSE)}

\* Result<T, api::Error>: Ok, or one of the error variants; "Panic" is not a
\* value of the type but the abort of the calling thread; "Value" is the
\* bare return of a wrapper whose return type is not a Result.
Ok(v) == [kind |-> "Ok", val |-> v]
Value(v) == [kind |-> "Value", val |-> v]
NvimError(e) == [kind |-> "Nvim", val |-> e]
ConversionError(expected, actual) ==
  [kind |-> "Conversion", val |-> [expected |-> expected, actual |-> actual]]
Custom(msg) == [kind |-> "Custom", val |-> msg]
Panic(msg) == [kind |-> "Panic", val |-> msg]

\* ToObject::to_object
to_object(tv) ==
  CASE tv.ty = "i64" -> Ok(IntObj(tv.v))
    [] tv.ty = "usize" -> IF tv.v <= IntegerMax THEN Ok(IntObj(tv.v))
                          ELSE ConversionError("integer", "out-of-range")
    [] tv.ty = "bool" -> Ok(BoolObj(tv.v))
    [] tv.ty = "String" -> Ok(StrObj(tv.v))
    [] tv.ty = "unit" -> Ok(NilObj)
    [] tv.ty = "Function" -> Ok(FunObj(tv.v))

\* Dictionary::get: linear scan, first pair with the key; <<>> when absent.
RECURSIVE dict_find(_, _, _)
dict_find(d, key, i) ==
  IF i > Len(d) THEN 0
  ELSE IF d[i][1] = key THEN i ELSE dict_find(d, key, i + 1)

dict_get(d, key) ==
  LET i == dict_find(d, key, 1) IN IF i = 0 THEN <<>> ELSE <<d[i][2]>>

\* Dictionary push: a new pair at the end.
dict_push(d, key, obj) == Append(d, <<key, obj>>)

\* Index-assignment that moves the updated pair to the end.
dict_set_reinsert(d, key, obj) ==
  Append(SelectSeq(d, LAMBDA p : p[1] # key), <<key, obj>>)

\* Dictionary index-assignment: update the existing key or append a pair.
dict_set(d, key, obj) ==
  LET i == dict_find(d, key, 1)
  IN IF i = 0 THEN Append(d, <<key, obj>>) ELSE [d EXCEPT ![i] = <<key, obj>>]

\* Kinds each field of a struct decoded from a Dictionary accepts.
FieldKinds(ty) ==
  CASE ty = "WindowConfig" ->
         [win |-> {"integer"}, relative |-> {"string", "integer"},
          width |-> {"integer"}]
    [] ty = "KeymapInfos" -> [lhs |-> {"string"}]
    [] ty = "OptionInfos" -> [name |-> {"string"}]
    [] ty = "CommandInfos" ->
         [name |-> {"string"}, definition |-> {"string"},
          callback |-> {"luaref"}]

RequiredFields(ty) ==
  CASE ty = "WindowConfig" -> {}
    [] ty = "KeymapInfos" -> {"lhs"}
    [] ty = "OptionInfos" -> {"name"}
    [] ty = "CommandInfos" -> {"name"}

StructTypes == {"WindowConfig", "KeymapInfos", "OptionInfos", "CommandInfos"}

struct_from_object(obj, ty) ==
  IF obj.kind # "dictionary" THEN ConversionError("dictionary", obj.kind)
  ELSE LET d == obj.val
           fk == FieldKinds(ty)
           missing == {f \in RequiredFields(ty) : dict_get(d, f) = <<>>}
           bad == {i \in 1..Len(d) :
                     /\ d[i][1] \in DOMAIN fk
                     /\ d[i][2].kind \notin fk[d[i][1]]}
       IN IF missing # {} THEN ConversionError("field", "missing")
          ELSE IF bad # {}
                 THEN ConversionError("field-kind",
                                      d[CHOOSE i \in bad :
                                          \A j \in bad : i <= j][2].kind)
                 ELSE Ok(TV(ty, d))

\* FromObject::from_object for the requested type ty.
from_object(obj, ty) ==
  CASE ty = "i64" -> IF obj.kind = "integer" THEN Ok(TV(ty, obj.val))
                     ELSE ConversionError("integer", obj.kind)
    [] ty \in {"usize", "u32"} ->
         IF obj.kind # "integer" THEN ConversionError("integer", obj.kind)
         ELSE IF obj.val \in (IF ty = "usize" THEN Usize ELSE U32)
                THEN Ok(TV(ty, obj.val))
                ELSE ConversionError(ty, "out-of-range")
    [] ty = "Buffer" ->
         IF obj.kind # "integer" THEN ConversionError("integer", obj.kind)
         ELSE IF obj.val \in I32 THEN Ok(TV(ty, obj.val))
                ELSE ConversionError(ty, "out-of-range")
    [] ty = "bool" -> IF obj.kind = "boolean" THEN Ok(TV(ty, obj.val))
                      ELSE ConversionError("boolean", obj.kind)
    [] ty = "String" -> IF obj.kind = "string" THEN Ok(TV(ty, obj.val))
                        ELSE ConversionError("string", obj.kind)
    [] ty = "unit" -> IF obj.kind = "nil" THEN Ok(Unit)
                      ELSE ConversionError("nil", obj.kind)
    [] ty \in StructTypes -> struct_from_object(obj, ty)

\* usize -> Integer by TryFrom.
to_Integer(n) ==
  IF n <= IntegerMax THEN Ok(n) ELSE ConversionError("Integer", "out-of-range")

\* Integer -> u32 / usize by TryFrom.
try_into(n, ty) ==
  IF n \in (IF ty = "usize" THEN Usize ELSE U32) THEN Ok(TV(ty, n))
  ELSE ConversionError(ty, "out-of-range")

\* `n as i32`: the low bits of n, reinterpreted as signed.
as_i32(n) == ((n - I32Min) % (I32Max - I32Min + 1)) + I32Min

\* ------------------------------------------------------------------- state
VARIABLES
  pc,         \* "idle", "call" (boundary call issued), "ret" (host returned)
              \* or "scope" (a caller holds a NonOwning it built itself)
  cur,        \* the wrapper being run, or the last one run
  args,       \* its arguments
  err,        \* the error record of the frame
  owned,      \* owned values built for the call: name -> [frees, binding]
  borrows,    \* the NonOwning wrappers and references handed to the host
  ret,        \* the value the host returned
  result,     \* what the wrapper returned to its caller
  nCalls,     \* boundary calls issued by this invocation
  touched,    \* what the wrapper did with ret: "read", "mutated", "converted"
  dangling,   \* the host read a borrow whose data had been freed
  hostFailed, \* the host operation failed during this invocation
  gvars,      \* host state: the g: variables, name -> Object or NoObject
  lastSet,    \* name -> the typed value of the last successful set_var
  prevFailed, \* the invocation before this one left its error record set
  editor,     \* host state: the parts of the editor the model follows
  hist,       \* what the successful calls so far wrote to those parts
  dictionary  \* a Dictionary a caller builds, with the keys as first inserted

vars == <<pc, cur, args, err, owned, borrows, ret, result, nCalls, touched,
           dangling, hostFailed, gvars, lastSet, prevFailed, editor, hist,
           dictionary>>

NoObject == [kind |-> "absent", val |-> "absent"]
NoValue == TV("none", "none")
NoRet == "void"
NoResult == [kind |-> "None", val |-> Unit]

\* The editor state behind the boundary.  tracks names the parts the model
\* follows; a host function working on a part that is not followed can
\* return any value of its return type.
OptNames == {"modified"}
MarkNames == {"A", "a"}
NoMark == <<0, 0>>
NoEditor ==
  [tracks |-> {},
   opts |-> [n \in OptNames |-> BoolObj(FALSE)],
   cmds |-> <<>>,
   lines |-> <<"">>,
   marks |-> [n \in MarkNames |-> NoMark],
   typeahead |-> <<>>]

Editor(parts) == [NoEditor EXCEPT !.tracks = parts]

\* An empty Dictionary, no key inserted yet.
NoDictionary == [d |-> <<>>, keys |-> <<>>]

\* What the caller knows of the editor from the calls that succeeded.
NoHist ==
  [opts |-> [n \in OptNames |-> NoValue],
   optsBefore |-> [n \in OptNames |-> NoValue],
   cmds |-> {},
   lines |-> [known |-> FALSE, L |-> <<>>],
   marks |-> [n \in MarkNames |-> [known |-> FALSE, at |-> NoMark]],
   typeahead |-> <<>>]

\* ------------------------------------------------------ NonOwning, drops
\* A local binding that owns its data.
Local == [frees |-> 0, binding |-> "live"]

\* A temporary dropped as soon as its non_owning() borrow has been taken.
TemporaryDroppedEarly == [frees |-> 1, binding |-> "dropped"]

\* A temporary created inside the call expression, as it stands while the
\* boundary call runs: temporaries live to the end of the enclosing statement.
Temporary == [frees |-> 0, binding |-> "live"]

\* NonOwning::new(value): value is moved into a ManuallyDrop.
NonOwning_new(value) == [inner |-> value]

\* A wrapper whose drop runs the destructor of the inner value.
NonOwning_drop_owning(w) == 1

\* Destructor runs of the inner value when a NonOwning is dropped: none, the
\* inner value sits in a ManuallyDrop.
NonOwning_drop(w) == 0

\* Passing the binding n itself by value moves it: it owns nothing any more.
PassByValue(o, n) == [o EXCEPT ![n].binding = "moved"]

\* x.non_owning(): a NonOwning over a bitwise copy of x; x stays bound.
non_owning(x) == NonOwning_new(x)

\* A plain reference (`&config.into()`).
Ref(x) == [ref |-> x]

Borrowed(bs) == {b.inner : b \in {w \in bs : "inner" \in DOMAIN w}}
                  \cup {b.ref : b \in {w \in bs : "ref" \in DOMAIN w}}

\* End of the wrapper's scope: the wrappers are dropped, then every binding
\* that still owns its data runs its destructor.
DropFrame(o, bs) ==
  [n \in DOMAIN o |->
     [frees |-> o[n].frees
                  + (IF NonOwning_new(n) \in bs
                       THEN NonOwning_drop(NonOwning_new(n)) ELSE 0)
                  + (IF o[n].binding = "live" THEN 1 ELSE 0),
      binding |-> IF o[n].binding = "live" THEN "dropped" ELSE o[n].binding]]

NoOwned == [n \in {} |-> Local]
Owns(names) == [n \in names |-> Local]
Temps(names) == [n \in names |-> Temporary]

\* ------------------------------------------------------- wrapper entries
\* A wrapper that hands its boundary call to the host for later and returns
\* at once.
Enter_deferred(w, a, e, o, bs) ==
  /\ pc = "idle"
  /\ pc' = "idle"
  /\ cur' = w
  /\ args' = a
  /\ err' = e
  /\ owned' = DropFrame(o, bs)
  /\ borrows' = {}
  /\ ret' = NoRet
  /\ result' = Ok(Unit)
  /\ nCalls' = 0
  /\ touched' = {}
  /\ dangling' = FALSE
  /\ hostFailed' = FALSE
  /\ prevFailed' = is_err(err)
  /\ UNCHANGED <<gvars, lastSet, editor, hist, dictionary>>

\* The code of a wrapper up to and including the issue of its boundary call.
Enter(w, a, e, o, bs) ==
  /\ pc = "idle"
  /\ pc' = "call"
  /\ cur' = w
  /\ args' = a
  /\ err' = e
  /\ owned' = o
  /\ borrows' = bs
  /\ ret' = NoRet
  /\ result' = NoResult
  /\ nCalls' = 0
  /\ touched' = {}
  /\ dangling' = FALSE
  /\ hostFailed' = FALSE
  /\ prevFailed' = is_err(err)
  /\ UNCHANGED <<gvars, lastSet, editor, hist, dictionary>>

\* A wrapper that issues its boundary call although a conversion failed.
EarlyReturn_call_anyway(w, a, e, o, bs, r) == Enter(w, a, e, o, bs)

\* A wrapper that returns r before any boundary call (`?` on a conversion).
EarlyReturn(w, a, e, o, bs, r) ==
  /\ pc = "idle"
  /\ pc' = "idle"
  /\ cur' = w
  /\ args' = a
  /\ err' = e
  /\ owned' = DropFrame(o, bs)
  /\ borrows' = {}
  /\ ret' = NoRet
  /\ result' = r
  /\ nCalls' = 0
  /\ touched' = {}
  /\ dangling' = FALSE
  /\ hostFailed' = FALSE
  /\ prevFailed' = is_err(err)
  /\ UNCHANGED <<gvars, lastSet, editor, hist, dictionary>>

chan_send ==
  /\ pc = "idle"
  /\ \E data \in Strs :
       Enter("chan_send", [data |-> data], ErrorNew,
             Owns({"data"}), {non_owning("data")})

create_buf ==
  /\ pc = "idle"
  /\ \E is_listed \in BOOLEAN :
       Enter("create_buf", [is_listed |-> is_listed], ErrorNew, NoOwned, {})

open_win ==
  /\ pc = "idle"
  /\ \E enter \in BOOLEAN :
       Enter("open_win", [enter |-> enter], ErrorNew,
             Temps({"config"}), {Ref("config")})

get_config ==
  /\ pc = "idle"
  /\ Enter("get_config", [win |-> 1], ErrorNew, NoOwned, {})

get_var ==
  /\ pc = "idle"
  /\ \E name \in VarNames, ty \in VarTypes :
       Enter("get_var", [name |-> name, ty |-> ty], ErrorNew,
             Owns({"name"}), {non_owning("name")})

set_var ==
  /\ pc = "idle"
  /\ \E name \in VarNames, value \in VarValues :
       LET obj == to_object(value)
           a == [name |-> name, value |-> value, obj |-> obj.val]
       IN IF obj.kind = "Ok"
            THEN Enter("set_var", a, ErrorNew, Owns({"name", "value"}),
                       {non_owning("name"), non_owning("value")})
            ELSE EarlyReturn("set_var", a, NoRecord, Owns({"name"}), {}, obj)

del_var ==
  /\ pc = "idle"
  /\ \E name \in VarNames :
       Enter("del_var", [name |-> name], ErrorNew,
             Owns({"name"}), {non_owning("name")})

open_term ==
  /\ pc = "idle"
  /\ Enter("open_term", [buffer |-> 1], ErrorNew,
           Owns({"opts"}), {non_owning("opts")})

del_mark ==
  /\ pc = "idle"
  /\ \E name \in {"A", "a"} :
       Enter("del_mark", [name |-> name], ErrorNew,
             Owns({"name"}), {non_owning("name")})

get_keymap ==
  /\ pc = "idle"
  /\ Enter("get_keymap", [mode |-> "n"], NoRecord,
           Owns({"mode"}), {non_owning("mode")})

get_mark ==
  /\ pc = "idle"
  /\ \E name \in {"A", "a"} :
       Enter("get_mark", [name |-> name], ErrorNew,
             Owns({"name", "opts"}), {non_owning("name"), non_owning("opts")})

load_context ==
  /\ pc = "idle"
  /\ Enter("load_context", [ctx |-> <<>>], NoRecord,
           Owns({"ctx"}), {non_owning("ctx")})

set_keymap ==
  /\ pc = "idle"
  /\ \E rhs \in Strs :
       Enter("set_keymap", [mode |-> "n", lhs |-> "a", rhs |-> rhs], ErrorNew,
             Owns({"mode", "lhs", "rhs"}),
             {non_owning("mode"), non_owning("lhs"), non_owning("rhs")})

err_write ==
  /\ pc = "idle"
  /\ \E str \in Strs :
       Enter("err_write", [str |-> str], NoRecord,
             Temps({"str"}), {non_owning("str")})

out_write ==
  /\ pc = "idle"
  /\ \E str \in Strs :
       Enter("out_write", [str |-> str], NoRecord,
             Temps({"str"}), {non_owning("str")})

set_current_line ==
  /\ pc = "idle"
  /\ \E line \in Strs :
       Enter("set_current_line", [line |-> line], ErrorNew,
             Temps({"line"}), {non_owning("line")})

set_option ==
  /\ pc = "idle"
  /\ \E name \in OptNames, value \in VarValues \cup BoolValues :
       LET obj == to_object(value)
           a == [name |-> name, value |-> value, obj |-> obj.val]
       IN IF obj.kind = "Ok"
            THEN Enter("set_option", a, ErrorNew,
                       Owns({"name"}) @@ Temps({"value"}),
                       {non_owning("name"), non_owning("value")})
            ELSE EarlyReturn("set_option", a, ErrorNew, Owns({"name"}),
                             {non_owning("name")}, obj)

get_all_options_info ==
  /\ pc = "idle"
  /\ Enter("get_all_options_info", [all |-> TRUE], ErrorNew, NoOwned, {})

list_bufs ==
  /\ pc = "idle"
  /\ Enter("list_bufs", [all |-> TRUE], NoRecord, NoOwned, {})

\* Buffer::set_lines, Buffer::get_lines over the whole buffer (`..`), and
\* Buffer::line_count.
LineLists == UNION {[1..n -> Strs] : n \in 0..MaxLen}

\* The replacement lines as the Array handed to the host.
lines_to_array(L) == [i \in 1..Len(L) |-> StrObj(L[i])]

buf_set_lines ==
  /\ pc = "idle"
  /\ \E replacement \in LineLists :
       Enter("buf_set_lines",
             [replacement |-> replacement, arr |-> lines_to_array(replacement)],
             ErrorNew, Owns({"replacement"}), {non_owning("replacement")})

buf_get_lines ==
  /\ pc = "idle"
  /\ Enter("buf_get_lines", [strict_indexing |-> TRUE], ErrorNew, NoOwned, {})

buf_line_count ==
  /\ pc = "idle"
  /\ Enter("buf_line_count", [buffer |-> 1], ErrorNew, NoOwned, {})

\* Keys a caller queues: x deletes the character under the cursor, dd the
\* current line.
Keys == {<<"x">>, <<"d", "d">>}

input ==
  /\ pc = "idle"
  /\ \E keys \in Keys :
       Enter("input", [keys |-> keys], NoRecord,
             Temps({"keys"}), {non_owning("keys")})

\* User commands: the names, and the command given as a string or as a
\* function.
CmdNames == {"Foo", "Bar"}
Commands == {TV("String", ":"), TV("Function", 1)}

create_user_command ==
  /\ pc = "idle"
  /\ \E name \in CmdNames, command \in Commands :
       Enter("create_user_command",
             [name |-> name, command |-> command,
              obj |-> to_object(command).val],
             ErrorNew, Owns({"name", "command"}),
             {non_owning("name"), non_owning("command")})

del_user_command ==
  /\ pc = "idle"
  /\ \E name \in CmdNames :
       Enter("del_user_command", [name |-> name], ErrorNew,
             Owns({"name"}), {non_owning("name")})

get_commands ==
  /\ pc = "idle"
  /\ Enter("get_commands", [opts |-> "default"], ErrorNew, NoOwned, {})

\* Buffer::set_mark, Buffer::get_mark, Buffer::del_mark.  A mark position is
\* (1,0)-indexed: rows start at 1.
MarkRows == {1, UsizeMax}
MarkCols == {0, 1}

buf_set_mark ==
  /\ pc = "idle"
  /\ \E name \in MarkNames, line \in MarkRows, col \in MarkCols :
       LET a == [name |-> name, line |-> line, col |-> col]
       IN IF to_Integer(line).kind = "Ok"
            THEN Enter("buf_set_mark", a, ErrorNew, Owns({"name"}),
                       {non_owning("name")})
            ELSE EarlyReturn("buf_set_mark", a, ErrorNew, Owns({"name"}),
                             {non_owning("name")}, to_Integer(line))

buf_get_mark ==
  /\ pc = "idle"
  /\ \E name \in MarkNames :
       Enter("buf_get_mark", [name |-> name], ErrorNew,
             Owns({"name"}), {non_owning("name")})

buf_del_mark ==
  /\ pc = "idle"
  /\ \E name \in MarkNames :
       Enter("buf_del_mark", [name |-> name], ErrorNew,
             Owns({"name"}), {non_owning("name")})

\* The types the callers of the option and v: getters ask for.
OptTypes == {"bool", "i64", "usize", "String"}

get_vvar ==
  /\ pc = "idle"
  /\ \E ty \in OptTypes :
       Enter("get_vvar", [name |-> "count", ty |-> ty], ErrorNew,
             Owns({"name"}), {non_owning("name")})

get_option ==
  /\ pc = "idle"
  /\ \E name \in OptNames, ty \in OptTypes :
       Enter("get_option", [name |-> name, ty |-> ty], ErrorNew,
             Owns({"name"}), {non_owning("name")})

get_option_value ==
  /\ pc = "idle"
  /\ \E name \in OptNames, ty \in OptTypes :
       Enter("get_option_value", [name |-> name, ty |-> ty], ErrorNew,
             Owns({"name"}), {non_owning("name")})

\* Color and highlight-group names a caller asks for.
ColorNames == {"Red", "#ffffff"}

get_color_by_name ==
  /\ pc = "idle"
  /\ \E name \in ColorNames :
       Enter("get_color_by_name", [name |-> name], NoRecord,
             Owns({"name"}), {non_owning("name")})

get_hl_id_by_name ==
  /\ pc = "idle"
  /\ \E name \in {"Normal", "Visual"} :
       Enter("get_hl_id_by_name", [name |-> name], NoRecord,
             Owns({"name"}), {non_owning("name")})

set_vvar ==
  /\ pc = "idle"
  /\ \E value \in VarValues :
       LET obj == to_object(value)
           a == [name |-> "count", value |-> value, obj |-> obj.val]
       IN IF obj.kind = "Ok"
            THEN Enter("set_vvar", a, ErrorNew, Owns({"name", "value"}),
                       {non_owning("name"), non_owning("value")})
            ELSE EarlyReturn("set_vvar", a, NoRecord, Owns({"name"}), {}, obj)

set_option_value ==
  /\ pc = "idle"
  /\ \E name \in OptNames, value \in VarValues \cup BoolValues :
       LET obj == to_object(value)
           a == [name |-> name, value |-> value, obj |-> obj.val]
       IN IF obj.kind = "Ok"
            THEN Enter("set_option_value", a, ErrorNew,
                       Owns({"name"}) @@ Temps({"value"}),
                       {non_owning("name"), non_owning("value")})
            ELSE EarlyReturn("set_option_value", a, ErrorNew, Owns({"name"}),
                             {non_owning("name")}, obj)

\* Rows, columns and popup-menu items a caller passes as usize.
Positions == {1, UsizeMax}

\* `row.try_into()?` comes before `col.try_into()?`.
input_mouse ==
  /\ pc = "idle"
  /\ \E row \in Positions, col \in Positions :
       LET a == [button |-> "left", action |-> "press", modifier |-> "",
                 grid |-> 0, row |-> row, col |-> col]
           o == Owns({"button", "action", "modifier"})
           bs == {non_owning("button"), non_owning("action"),
                  non_owning("modifier")}
       IN IF to_Integer(row).kind # "Ok"
            THEN EarlyReturn("input_mouse", a, ErrorNew, o, bs, to_Integer(row))
            ELSE IF to_Integer(col).kind # "Ok"
                   THEN EarlyReturn("input_mouse", a, ErrorNew, o, bs,
                                    to_Integer(col))
                   ELSE Enter("input_mouse", a, ErrorNew, o, bs)

select_popupmenu_item ==
  /\ pc = "idle"
  /\ \E item \in Positions, insert \in BOOLEAN :
       LET a == [item |-> item, insert |-> insert, finish |-> FALSE]
       IN IF to_Integer(item).kind = "Ok"
            THEN Enter("select_popupmenu_item", a, ErrorNew, Owns({"opts"}),
                       {non_owning("opts")})
            ELSE EarlyReturn("select_popupmenu_item", a, ErrorNew,
                             Owns({"opts"}), {}, to_Integer(item))

\* ---------------------------------------------------------------- the host
\* What a host function can do with a call: the error record it leaves, the
\* value it returns, the g: variables afterwards, and whether it failed.
HostOk(e, r, g) == [err |-> e, ret |-> r, gvars |-> g, failed |-> FALSE]

\* A failing call leaves the editor state alone, writes the error record and
\* returns some value of its return type.
HostFail(rs, g) ==
  {[err |-> he, ret |-> r, gvars |-> g, failed |-> TRUE] :
     he \in HostErrors, r \in rs}

\* Arrays and dictionaries of at most MaxLen entries.
SeqsUpTo(S) == UNION {[1..n -> S] : n \in 0..MaxLen}

Handles == I32
WinPairs == {<<"win", IntObj(1)>>, <<"win", IntObj(IntegerMax)>>,
             <<"relative", StrObj("a")>>,
             <<"width", IntObj(1)>>, <<"width", StrObj("a")>>}
WinDicts == SeqsUpTo(WinPairs)
KeymapItems == {DictObj(<< <<"lhs", StrObj("a")>> >>), DictObj(<<>>), IntObj(0)}
OptionItems == {DictObj(<< <<"name", StrObj("a")>> >>), NilObj}
OptionDicts == SeqsUpTo({<<"a", o>> : o \in OptionItems})
BufItems == {IntObj(1), IntObj(IntegerMax), StrObj("a")}
MarkItems == {IntObj(1), StrObj("a")}
MarkArrays == UNION {[1..n -> MarkItems] : n \in 0..4}
Garbage == {NilObj, IntObj(0)}
\* One Object of every kind a getter can be handed, and two integers.
Objects == {NilObj, BoolObj(TRUE), IntObj(1), IntObj(IntegerMin),
            StrObj("a"), DictObj(<<>>)}

nvim_get_var(name, e, g) ==
  IF g[name] = NoObject THEN HostFail(Garbage, g)
  ELSE {HostOk(e, g[name], g)}

nvim_set_var(name, obj, e, g) ==
  {HostOk(e, NoRet, [g EXCEPT ![name] = obj])} \cup HostFail({NoRet}, g)

nvim_del_var(name, e, g) ==
  IF g[name] = NoObject THEN HostFail({NoRet}, g)
  ELSE {HostOk(e, NoRet, [g EXCEPT ![name] = NoObject])}

\* Host functions whose effect on the editor is not part of the model: any
\* value of the return type, with or without a failure.
Returns(rs, e, g) == {HostOk(e, r, g) : r \in rs} \cup HostFail(rs, g)

\* Host functions that take no error record: a failure inside the host
\* cannot reach the record.
Silent(rs, e, g) ==
  {[err |-> e, ret |-> r, gvars |-> g, failed |-> f] :
     r \in rs, f \in BOOLEAN}

HostOutcomes(w, a, e, g) ==
  CASE w = "get_var" -> nvim_get_var(a.name, e, g)
    [] w = "set_var" -> nvim_set_var(a.name, a.obj, e, g)
    [] w = "del_var" -> nvim_del_var(a.name, e, g)
    [] w \in {"create_buf", "open_win"} -> Returns(Handles, e, g)
    [] w = "get_config" -> Returns(WinDicts, e, g)
    [] w = "open_term" -> Returns(Integer, e, g)
    [] w = "del_mark" -> Returns(BOOLEAN, e, g)
    [] w = "get_mark" -> Returns(MarkArrays, e, g)
    [] w = "get_all_options_info" -> Returns(OptionDicts, e, g)
    [] w = "get_keymap" -> {HostOk(e, r, g) : r \in SeqsUpTo(KeymapItems)}
    [] w = "list_bufs" -> {HostOk(e, r, g) : r \in SeqsUpTo(BufItems)}
    [] w = "load_context" -> Silent({NilObj}, e, g)
    [] w \in {"get_vvar", "get_option", "get_option_value"} ->
         Returns(Objects, e, g)
    [] w \in {"err_write", "out_write"} -> {HostOk(e, NoRet, g)}
    [] w \in {"get_color_by_name", "get_hl_id_by_name", "input"} ->
         {HostOk(e, r, g) : r \in Integer}
    [] OTHER -> Returns({NoRet}, e, g)

\* ------------------------------------------------- the editor, followed
\* The part of the editor a wrapper works on.
Part(w) ==
  CASE w \in {"set_option", "get_option"} -> "opts"
    [] w \in {"create_user_command", "del_user_command", "get_commands"} ->
         "cmds"
    [] w \in {"buf_set_mark", "buf_get_mark", "buf_del_mark", "get_mark",
              "del_mark"} -> "marks"
    [] w \in {"buf_set_lines", "buf_get_lines", "buf_line_count",
              "set_current_line", "input"} -> "lines"
    [] OTHER -> "none"

Tracked(w, ed) == Part(w) \in ed.tracks

EdOk(e, r, ed) == [err |-> e, ret |-> r, editor |-> ed, failed |-> FALSE]

EdFail(rs, ed) ==
  {[err |-> he, ret |-> r, editor |-> ed, failed |-> TRUE] :
     he \in HostErrors, r \in rs}

\* The options followed are boolean options: the host refuses a value of
\* another kind, and may refuse a boolean as well.
nvim_set_option(name, obj, e, ed) ==
  (IF obj.kind = "boolean"
     THEN {EdOk(e, NoRet, [ed EXCEPT !.opts[name] = obj])} ELSE {})
    \cup EdFail({NoRet}, ed)

nvim_get_option(name, e, ed) == {EdOk(e, ed.opts[name], ed)}

\* What nvim_get_commands tells about one command.
CommandInfo(name, cmd) ==
  DictObj(<< <<"name", StrObj(name)>>,
             <<"definition", IF cmd.kind = "string" THEN cmd ELSE StrObj("")>> >>
          \o (IF cmd.kind = "luaref" THEN << <<"callback", cmd>> >> ELSE <<>>))

\* Creating a command under an existing name replaces it.
nvim_create_user_command(name, cmd, e, ed) ==
  {EdOk(e, NoRet,
        [ed EXCEPT !.cmds = dict_set(@, name, CommandInfo(name, cmd))])}
    \cup EdFail({NoRet}, ed)

nvim_del_user_command(name, e, ed) ==
  IF dict_get(ed.cmds, name) = <<>> THEN EdFail({NoRet}, ed)
  ELSE {EdOk(e, NoRet,
             [ed EXCEPT !.cmds = SelectSeq(@, LAMBDA p : p[1] # name)])}

nvim_get_commands(e, ed) == {EdOk(e, ed.cmds, ed)}

\* A mark that cannot be set is reported through the error record.
nvim_buf_set_mark(name, line, col, e, ed) ==
  {EdOk(e, TRUE, [ed EXCEPT !.marks[name] = <<line, col>>])}
    \cup EdFail(BOOLEAN, ed)

\* (0, 0) is returned for a mark that is not set.
nvim_buf_get_mark(name, e, ed) ==
  {EdOk(e, <<IntObj(ed.marks[name][1]), IntObj(ed.marks[name][2])>>, ed)}

nvim_buf_del_mark(name, e, ed) ==
  IF ed.marks[name] = NoMark THEN {EdOk(e, FALSE, ed)}
  ELSE {EdOk(e, TRUE, [ed EXCEPT !.marks[name] = NoMark])}

\* (row, col, buffer, buffername)
nvim_get_mark(name, e, ed) ==
  {EdOk(e, <<IntObj(ed.marks[name][1]), IntObj(ed.marks[name][2]),
             IntObj(1), StrObj("a")>>, ed)}

nvim_del_mark(name, e, ed) == nvim_buf_del_mark(name, e, ed)

\* A buffer always holds at least one line: replacing everything by
\* nothing leaves one empty line.
nvim_buf_set_lines(arr, e, ed) ==
  {EdOk(e, NoRet,
        [ed EXCEPT !.lines = IF arr = <<>> THEN <<"">>
                             ELSE [i \in 1..Len(arr) |-> arr[i].val]])}
    \cup EdFail({NoRet}, ed)

nvim_buf_get_lines(e, ed) == {EdOk(e, lines_to_array(ed.lines), ed)}

nvim_buf_line_count(e, ed) == {EdOk(e, Len(ed.lines), ed)}

\* The current line is the first line.
nvim_set_current_line(line, e, ed) ==
  {EdOk(e, NoRet, [ed EXCEPT !.lines[1] = line])} \cup EdFail({NoRet}, ed)

Min(a, b) == IF a <= b THEN a ELSE b

\* nvim_input appends to the input buffer the bytes it has room for and
\* returns how many it wrote; the keys are not run before it returns.
nvim_input(keys, e, ed) ==
  LET n == Min(MaxQueue - Len(ed.typeahead), Len(keys))
  IN {EdOk(e, n, [ed EXCEPT !.typeahead = @ \o SubSeq(keys, 1, n)])}

EditorOutcomes(w, a, e, ed) ==
  CASE w = "set_option" -> nvim_set_option(a.name, a.obj, e, ed)
    [] w = "get_option" -> nvim_get_option(a.name, e, ed)
    [] w = "create_user_command" ->
         nvim_create_user_command(a.name, a.obj, e, ed)
    [] w = "del_user_command" -> nvim_del_user_command(a.name, e, ed)
    [] w = "get_commands" -> nvim_get_commands(e, ed)
    [] w = "buf_set_mark" -> nvim_buf_set_mark(a.name, a.line, a.col, e, ed)
    [] w = "buf_get_mark" -> nvim_buf_get_mark(a.name, e, ed)
    [] w = "buf_del_mark" -> nvim_buf_del_mark(a.name, e, ed)
    [] w = "get_mark" -> nvim_get_mark(a.name, e, ed)
    [] w = "del_mark" -> nvim_del_mark(a.name, e, ed)
    [] w = "buf_set_lines" -> nvim_buf_set_lines(a.arr, e, ed)
    [] w = "buf_get_lines" -> nvim_buf_get_lines(e, ed)
    [] w = "buf_line_count" -> nvim_buf_line_count(e, ed)
    [] w = "set_current_line" -> nvim_set_current_line(a.line, e, ed)
    [] w = "input" -> nvim_input(a.keys, e, ed)

\* The editor runs the first command of its input buffer: x empties the
\* (one character) current line, dd removes it, d followed by another key
\* is dropped; a lone d waits for the key that completes it.
RunKeys(ed) ==
  LET q == ed.typeahead
      n == IF q[1] = "x" THEN 1 ELSE 2
      ls == ed.lines
  IN [ed EXCEPT
        !.typeahead = SubSeq(q, n + 1, Len(q)),
        !.lines = IF q[1] = "x" THEN [ls EXCEPT ![1] = ""]
                  ELSE IF q[2] # "d" THEN ls
                  ELSE IF Len(ls) = 1 THEN <<"">> ELSE Tail(ls)]

CanRunKeys(ed) ==
  /\ ed.typeahead # <<>>
  /\ ed.typeahead[1] = "d" => Len(ed.typeahead) >= 2

\* The boundary call: the host function runs to completion.
BoundaryCall ==
  /\ pc = "call"
  /\ IF Tracked(cur, editor)
       THEN \E out \in EditorOutcomes(cur, args, err, editor) :
              /\ err' = out.err
              /\ ret' = out.ret
              /\ editor' = out.editor
              /\ hostFailed' = out.failed
              /\ gvars' = gvars
       ELSE \E out \in HostOutcomes(cur, args, err, gvars) :
              /\ err' = out.err
              /\ ret' = out.ret
              /\ gvars' = out.gvars
              /\ hostFailed' = out.failed
              /\ editor' = editor
  /\ dangling' = (dangling \/ \E n \in Borrowed(borrows) : owned[n].frees > 0)
  /\ nCalls' = nCalls + 1
  /\ pc' = "ret"
  /\ UNCHANGED <<cur, args, owned, borrows, result, touched, lastSet,
                 prevFailed, hist, dictionary>>

\* ------------------------------------------------ the code after the call
\* What a wrapper does once the host has returned: the result it hands to
\* its caller and what it did with the returned value on the way.
Done(r, t) == [result |-> r, touched |-> t]

\* choose!(err, other): other is evaluated only when the record is not set.
choose(e, other) == IF is_err(e) THEN Done(NvimError(e), {}) ELSE other

unit_ret(e) == choose(e, Done(Ok(Unit), {}))

\* create_buf taking a zero handle for a failure of the boundary call.
create_buf_ret_zero_is_error(e, handle) ==
  IF is_err(e) \/ handle = 0 THEN Done(NvimError(e), {})
  ELSE Done(Ok(TV("Buffer", handle)), {"converted"})

create_buf_ret(e, handle) ==
  choose(e, Done(Ok(TV("Buffer", handle)), {"converted"}))

open_win_ret(e, handle) ==
  choose(e, Done(Ok(TV("Window", handle)), {"converted"}))

\* get_config pushing a new "relative" pair whether or not there is one.
get_config_ret_append(e, dict) ==
  LET win == dict_get(dict, "win")
      d2 == IF win # <<>>
              THEN Append(dict, <<"relative", IntObj(as_i32(win[1].val))>>)
              ELSE dict
      before == IF win # <<>> THEN {"read", "mutated"} ELSE {"read"}
      r == choose(e, Done(from_object(DictObj(d2), "WindowConfig"),
                          {"converted"}))
  IN Done(r.result, before \cup r.touched)

get_config_ret(e, dict) ==
  LET win == dict_get(dict, "win")
      d2 == IF win # <<>>
              THEN dict_set(dict, "relative", IntObj(as_i32(win[1].val)))
              ELSE dict
      before == IF win # <<>> THEN {"read", "mutated"} ELSE {"read"}
      r == choose(e, Done(from_object(DictObj(d2), "WindowConfig"),
                          {"converted"}))
  IN Done(r.result, before \cup r.touched)

\* get_var converting a default Object instead of the returned one.
get_var_ret_default(e, obj, ty) ==
  choose(e, Done(from_object(NilObj, ty), {"converted"}))

get_var_ret(e, obj, ty) == choose(e, Done(from_object(obj, ty), {"converted"}))

\* get_vvar falling back to the default of the type when the conversion
\* fails (unwrap_or_default in place of `?`).
get_vvar_ret_or_default(e, obj, ty) ==
  LET r == from_object(obj, ty)
  IN choose(e, Done(IF r.kind = "Ok" THEN r ELSE Ok(TV(ty, "default")),
                    {"converted"}))

get_vvar_ret(e, obj, ty) == choose(e, Done(from_object(obj, ty), {"converted"}))

\* get_option converting a default Object instead of the returned one.
get_option_ret_default_object(e, obj, ty) ==
  choose(e, Done(from_object(NilObj, ty), {"converted"}))

get_option_ret(e, obj, ty) ==
  choose(e, Done(from_object(obj, ty), {"converted"}))

get_option_value_ret(e, obj, ty) ==
  choose(e, Done(from_object(obj, ty), {"converted"}))

open_term_ret(e, channel_id) ==
  choose(e, Done(IF channel_id = 0
                   THEN Custom("Couldn't create terminal instance")
                   ELSE IF try_into(channel_id, "u32").kind = "Ok"
                          THEN Ok(TV("u32", channel_id))
                          ELSE Panic("always positive"),
                 {"read"}))

\* del_mark looking at the returned flag before the error record.
del_mark_ret_sentinel_first(e, was_deleted) ==
  IF was_deleted THEN choose(e, Done(Ok(Unit), {"read"}))
  ELSE Done(Custom("Couldn't delete mark"), {"read"})

del_mark_ret(e, was_deleted) ==
  choose(e, Done(IF was_deleted THEN Ok(Unit)
                 ELSE Custom("Couldn't delete mark"), {"read"}))

\* iter.map(|obj| T::from_object(obj).unwrap()), consumed by the caller.
map_unwrap(arr, ty) ==
  IF \E i \in 1..Len(arr) : from_object(arr[i], ty).kind # "Ok"
    THEN Panic("unwrap")
    ELSE Ok(TV("iter", [i \in 1..Len(arr) |-> from_object(arr[i], ty).val]))

get_keymap_ret(keymaps) ==
  LET r == map_unwrap(keymaps, "KeymapInfos")
  IN Done(IF r.kind = "Ok" THEN Value(r.val) ELSE r, {"converted"})

list_bufs_ret(bufs) ==
  LET r == map_unwrap(bufs, "Buffer")
  IN Done(IF r.kind = "Ok" THEN Value(r.val) ELSE r, {"converted"})

get_all_options_info_ret(e, infos) ==
  choose(e, Done(map_unwrap([i \in 1..Len(infos) |-> infos[i][2]],
                            "OptionInfos"), {"converted"}))

\* get_commands yielding the first command only.
get_commands_ret_first(e, cmds) ==
  choose(e, Done(map_unwrap([i \in 1..(IF Len(cmds) = 0 THEN 0 ELSE 1) |->
                               cmds[i][2]], "CommandInfos"), {"converted"}))

get_commands_ret(e, cmds) ==
  choose(e, Done(map_unwrap([i \in 1..Len(cmds) |-> cmds[i][2]],
                            "CommandInfos"), {"converted"}))

buf_set_mark_ret(e, mark_was_set) ==
  choose(e, Done(IF mark_was_set THEN Ok(Unit)
                 ELSE Custom("Couldn't set mark"), {"read"}))

buf_get_mark_ret(e, mark) ==
  LET item(i) == from_object(mark[i], "usize")
      what == <<"row is present", "col is present">>
      stops == {i \in 1..2 : i > Len(mark) \/ item(i).kind # "Ok"}
      first == CHOOSE i \in stops : \A j \in stops : i <= j
  IN choose(e, Done(IF stops = {}
                      THEN Ok(TV("pair", <<item(1).val, item(2).val>>))
                      ELSE IF first > Len(mark) THEN Panic(what[first])
                           ELSE item(first),
                    {"converted"}))

buf_del_mark_ret(e, was_deleted) ==
  choose(e, Done(IF was_deleted THEN Ok(Unit)
                 ELSE Custom("Couldn't delete mark"), {"read"}))

\* get_mark reading the column before the row.
get_mark_ret_col_first(e, mark) ==
  LET item(i, ty) == from_object(mark[i], ty)
  IN choose(e, Done(Ok(TV("mark", <<item(2, "usize").val, item(1, "usize").val,
                                    item(3, "Buffer").val,
                                    item(4, "String").val>>)),
                    {"converted"}))

\* Buffer::get_lines yielding the lines last to first.
buf_get_lines_ret_reversed(e, lines) ==
  choose(e, Done(map_unwrap([i \in 1..Len(lines) |->
                               lines[Len(lines) + 1 - i]], "String"),
                 {"converted"}))

buf_get_lines_ret(e, lines) ==
  choose(e, Done(map_unwrap(lines, "String"), {"converted"}))

buf_line_count_ret(e, count) ==
  choose(e, Done(IF try_into(count, "usize").kind = "Ok"
                   THEN Ok(TV("usize", count))
                   ELSE Panic("always positive"), {"read"}))

\* `(color != -1).then(|| color.try_into().unwrap()).ok_or_else(..)`
get_color_by_name_ret(color) ==
  Done(IF color # -1
         THEN IF try_into(color, "u32").kind = "Ok"
                THEN Ok(TV("u32", color))
                ELSE Panic("called Result::unwrap() on an Err value")
         ELSE Custom("is not a valid color name"),
       {"read"})

\* `id.try_into().map_err(Into::into)`
get_hl_id_by_name_ret(id) == Done(try_into(id, "u32"), {"read"})

\* `.try_into().map_err(From::from)` on the number of bytes written.
input_ret(written) == Done(try_into(written, "usize"), {"read"})

get_mark_ret(e, mark) ==
  LET item(i, ty) == from_object(mark[i], ty)
      tys == <<"usize", "usize", "Buffer", "String">>
      what == <<"row is present", "col is present", "buffer is present",
                "buffername is present">>
      \* the first of the four steps that does not go through
      stops == {i \in 1..4 : i > Len(mark) \/ item(i, tys[i]).kind # "Ok"}
      first == CHOOSE i \in stops : \A j \in stops : i <= j
  IN choose(e, Done(IF stops = {}
                      THEN Ok(TV("mark", [i \in 1..4 |-> item(i, tys[i]).val]))
                      ELSE IF first > Len(mark) THEN Panic(what[first])
                           ELSE item(first, tys[first]),
                    {"converted"}))

\* `let _ = nvim_load_context(..)`: the returned Object is discarded.
load_context_ret(r) == Done(Value(Unit), {})

void_ret == Done(Value(Unit), {})

Post(w, a, e, r) ==
  CASE w = "create_buf" -> create_buf_ret(e, r)
    [] w = "open_win" -> open_win_ret(e, r)
    [] w = "get_config" -> get_config_ret(e, r)
    [] w = "get_var" -> get_var_ret(e, r, a.ty)
    [] w = "get_vvar" -> get_vvar_ret(e, r, a.ty)
    [] w = "get_option" -> get_option_ret(e, r, a.ty)
    [] w = "get_option_value" -> get_option_value_ret(e, r, a.ty)
    [] w = "open_term" -> open_term_ret(e, r)
    [] w = "del_mark" -> del_mark_ret(e, r)
    [] w = "get_keymap" -> get_keymap_ret(r)
    [] w = "list_bufs" -> list_bufs_ret(r)
    [] w = "get_all_options_info" -> get_all_options_info_ret(e, r)
    [] w = "get_mark" -> get_mark_ret(e, r)
    [] w = "get_commands" -> get_commands_ret(e, r)
    [] w = "buf_set_mark" -> buf_set_mark_ret(e, r)
    [] w = "buf_get_mark" -> buf_get_mark_ret(e, r)
    [] w = "buf_del_mark" -> buf_del_mark_ret(e, r)
    [] w = "buf_get_lines" -> buf_get_lines_ret(e, r)
    [] w = "buf_line_count" -> buf_line_count_ret(e, r)
    [] w = "input" -> input_ret(r)
    [] w = "get_color_by_name" -> get_color_by_name_ret(r)
    [] w = "get_hl_id_by_name" -> get_hl_id_by_name_ret(r)
    [] w = "load_context" -> load_context_ret(r)
    [] w \in {"err_write", "out_write"} -> void_ret
    [] OTHER -> unit_ret(e)

\* A wrapper that issues the boundary call again when the record is set.
NextPc_retry(e) == IF is_err(e) THEN "call" ELSE "idle"

\* Where the caller thread goes once the error record has been inspected:
\* back to its caller, whatever the record says.
NextPc(e) == "idle"

\* The last value a successful set_var stored under each name.
NoteSet(w, a, r, ls) ==
  CASE w = "set_var" ->
         [ls EXCEPT ![a.name] = IF r.kind = "Ok" THEN a.value ELSE NoValue]
    [] w = "del_var" -> [ls EXCEPT ![a.name] = NoValue]
    [] OTHER -> ls

\* What a successful call is known to have written to the editor.
NoteEdit(w, a, r, h) ==
  CASE w = "set_option" /\ r.kind = "Ok" ->
         [h EXCEPT !.opts[a.name] = a.value,
                   !.optsBefore[a.name] = h.opts[a.name]]
    [] w = "create_user_command" /\ r.kind = "Ok" ->
         [h EXCEPT !.cmds = @ \cup {a.name}]
    [] w = "del_user_command" /\ r.kind = "Ok" ->
         [h EXCEPT !.cmds = @ \ {a.name}]
    [] w = "buf_set_mark" /\ r.kind = "Ok" ->
         [h EXCEPT !.marks[a.name] = [known |-> TRUE, at |-> <<a.line, a.col>>]]
    [] w \in {"buf_del_mark", "del_mark"} /\ r.kind = "Ok" ->
         [h EXCEPT !.marks[a.name] = [known |-> FALSE, at |-> NoMark]]
    [] w = "buf_set_lines" /\ r.kind = "Ok" ->
         [h EXCEPT !.lines = [known |-> TRUE, L |-> a.replacement]]
    [] w = "set_current_line" /\ r.kind = "Ok" ->
         [h EXCEPT !.lines = [known |-> FALSE, L |-> <<>>]]
    [] w = "input" /\ r.kind = "Ok" ->
         [h EXCEPT !.typeahead = @ \o SubSeq(a.keys, 1, r.val.v)]
    [] OTHER -> h

\* The code after the boundary call, up to the return to the caller.  A
\* panic either unwinds (the frame's destructors run) or aborts the process.
Return ==
  /\ pc = "ret"
  /\ LET p == Post(cur, args, err, ret)
     IN /\ result' = p.result
        /\ touched' = p.touched
        /\ lastSet' = NoteSet(cur, args, p.result, lastSet)
        /\ hist' = IF Tracked(cur, editor)
                     THEN NoteEdit(cur, args, p.result, hist) ELSE hist
        /\ \E unwind \in (IF p.result.kind = "Panic" THEN BOOLEAN ELSE {TRUE}) :
             owned' = IF unwind THEN DropFrame(owned, borrows) ELSE owned
  /\ borrows' = {}
  /\ pc' = NextPc(err)
  /\ UNCHANGED <<cur, args, err, ret, nCalls, dangling, hostFailed, gvars,
                 prevFailed, editor, dictionary>>

\* The caller has returned to the editor, which takes the next command from
\* its input buffer and runs it.
RunInput ==
  /\ pc = "idle"
  /\ CanRunKeys(editor)
  /\ editor' = RunKeys(editor)
  /\ hist' = [hist EXCEPT !.typeahead = RunKeys(editor).typeahead,
                          !.lines = [known |-> FALSE, L |-> <<>>]]
  /\ cur' = "none"
  /\ args' = [none |-> TRUE]
  /\ result' = NoResult
  /\ ret' = NoRet
  /\ nCalls' = 0
  /\ UNCHANGED <<pc, err, owned, borrows, touched, dangling, hostFailed,
                 gvars, lastSet, prevFailed, dictionary>>

\* ------------------------------------------- NonOwning used by a caller
\* A caller builds an owned value and constructs a NonOwning from it: either
\* NonOwning::new(value) with the owner itself (the argument is taken by
\* value), or over a bitwise copy of it, as value.non_owning() does.
NonOwning_new_call ==
  \E byValue \in BOOLEAN :
    /\ pc = "idle"
    /\ pc' = "scope"
    /\ cur' = "NonOwning::new"
    /\ args' = [byValue |-> byValue]
    /\ err' = NoRecord
    /\ owned' = IF byValue THEN PassByValue(Owns({"value"}), "value")
                ELSE Owns({"value"})
    /\ borrows' = {NonOwning_new("value")}
    /\ ret' = NoRet
    /\ result' = NoResult
    /\ nCalls' = 0
    /\ touched' = {}
    /\ dangling' = FALSE
    /\ hostFailed' = FALSE
    /\ prevFailed' = is_err(err)
    /\ UNCHANGED <<gvars, lastSet, editor, hist, dictionary>>

\* The caller's scope ends: the wrapper is dropped, then the owner.
ScopeEnd ==
  /\ pc = "scope"
  /\ pc' = "idle"
  /\ owned' = DropFrame(owned, borrows)
  /\ borrows' = {}
  /\ result' = Value(Unit)
  /\ UNCHANGED <<cur, args, err, ret, nCalls, touched, dangling, hostFailed,
                 gvars, lastSet, prevFailed, editor, hist, dictionary>>

\* ----------------------------------------------- values built by a caller
\* A caller builds an Error record with constructor w and asks is_err.
Built(w, a, e) ==
  /\ cur' = w
  /\ args' = a
  /\ err' = e
  /\ result' = Value(TV("bool", is_err(e)))
  /\ UNCHANGED <<pc, owned, borrows, ret, nCalls, touched, dangling,
                 hostFailed, gvars, lastSet, prevFailed, editor, hist,
                 dictionary>>

Error_new ==
  /\ pc = "idle"
  /\ Built("Error::new", [none |-> TRUE], ErrorNew)

\* Default::default() is Self::new().
Error_default ==
  /\ pc = "idle"
  /\ Built("Error::default", [none |-> TRUE], ErrorNew)

Error_from_str ==
  /\ pc = "idle"
  /\ \E s \in RustStrings : Built("Error::from_str", [s |-> s], from_str(s))

Error_from_err ==
  /\ pc = "idle"
  /\ \E e \in StdErrors : Built("Error::from_err", [e |-> e], from_err(e))

\* is_err asked of a record the host has written: every type occurs.
Error_is_err ==
  /\ pc = "idle"
  /\ \E e \in HostErrors \cup {ErrorNew} :
       Built("Error::is_err", [none |-> TRUE], e)

\* ExtmarkHlMode: the variants, and their names as written in the source.
ExtmarkHlModes == {"Replace", "Combine", "Blend"}

VariantName(mode) ==
  CASE mode = "Replace" -> <<"R", "e", "p", "l", "a", "c", "e">>
    [] mode = "Combine" -> <<"C", "o", "m", "b", "i", "n", "e">>
    [] mode = "Blend" -> <<"B", "l", "e", "n", "d">>

\* char::to_ascii_lowercase on the letters that occur.
to_ascii_lowercase(c) ==
  CASE c = "R" -> "r" [] c = "C" -> "c" [] c = "B" -> "b" [] OTHER -> c

RECURSIVE Concat(_)
Concat(cs) == IF cs = <<>> THEN "" ELSE Head(cs) \o Concat(Tail(cs))

\* #[serde(rename_all(deserialize = "lowercase"))]: the name a variant is
\* deserialized from is its name in lowercase.
rename_all_lowercase(mode) ==
  Concat([i \in DOMAIN VariantName(mode) |->
            to_ascii_lowercase(VariantName(mode)[i])])

\* The conversion giving the name of the variant as the source spells it.
String_from_ExtmarkHlMode_variant_name(mode) == Concat(VariantName(mode))

\* impl From<ExtmarkHlMode> for nvim::String
String_from_ExtmarkHlMode(mode) ==
  CASE mode = "Replace" -> "replace"
    [] mode = "Combine" -> "combine"
    [] mode = "Blend" -> "blend"

\* The derived Deserialize: the variant whose renamed name is s, or an
\* unknown-variant error.
ExtmarkHlMode_deserialize(s) ==
  LET ms == {m \in ExtmarkHlModes : rename_all_lowercase(m) = s}
  IN IF ms = {} THEN ConversionError("ExtmarkHlMode", "unknown variant")
     ELSE Ok(TV("ExtmarkHlMode", CHOOSE m \in ms : TRUE))

\* A caller converts a value: only the call and its result change.
Converted(w, a, r) ==
  /\ cur' = w
  /\ args' = a
  /\ result' = r
  /\ UNCHANGED <<pc, err, owned, borrows, ret, nCalls, touched, dangling,
                 hostFailed, gvars, lastSet, prevFailed, editor, hist,
                 dictionary>>

ExtmarkHlMode_into ==
  /\ pc = "idle"
  /\ \E mode \in ExtmarkHlModes :
       Converted("ExtmarkHlMode::into", [mode |-> mode],
                 Value(TV("String", String_from_ExtmarkHlMode(mode))))

\* Strings the host hands over where a mode is expected.
ModeStrings == {"replace", "combine", "blend", "Replace", "BLEND", ""}

\* A mode is deserialized from a string of the host, or from the string the
\* conversion has just produced (from names the mode it was made from).
ExtmarkHlMode_deserialize_call ==
  /\ pc = "idle"
  /\ \/ \E s \in ModeStrings :
          Converted("ExtmarkHlMode::deserialize", [s |-> s, from |-> "none"],
                    ExtmarkHlMode_deserialize(s))
     \/ /\ cur = "ExtmarkHlMode::into"
        /\ Converted("ExtmarkHlMode::deserialize",
                     [s |-> result.val.v, from |-> args.mode],
                     ExtmarkHlMode_deserialize(result.val.v))

\* A caller grows a Dictionary: a pair with a new key is pushed, or a key
\* (new or not) is index-assigned.
DictKeys == {"c", "a", "b"}
DictValues == {IntObj(0), IntObj(1)}

Grown(w, key, value, d) ==
  /\ cur' = w
  /\ args' = [key |-> key, value |-> value,
              existed |-> dict_get(dictionary.d, key) # <<>>]
  /\ dictionary' =
       [d |-> d,
        keys |-> IF dict_get(dictionary.d, key) # <<>> THEN dictionary.keys
                 ELSE Append(dictionary.keys, key)]
  /\ err' = NoRecord
  /\ result' = NoResult
  /\ UNCHANGED <<pc, owned, borrows, ret, nCalls, touched, dangling,
                 hostFailed, gvars, lastSet, prevFailed, editor, hist>>

Dictionary_push ==
  /\ pc = "idle"
  /\ \E key \in DictKeys, value \in DictValues :
       /\ dict_get(dictionary.d, key) = <<>>
       /\ Grown("Dictionary::push", key, value,
                dict_push(dictionary.d, key, value))

Dictionary_index_mut ==
  /\ pc = "idle"
  /\ \E key \in DictKeys, value \in DictValues :
       Grown("Dictionary::index_mut", key, value,
             dict_set(dictionary.d, key, value))

\* ------------------------------------------------------------ specification
InitWith(parts) ==
  /\ pc = "idle"
  /\ cur = "none"
  /\ args = [none |-> TRUE]
  /\ err = NoRecord
  /\ owned = NoOwned
  /\ borrows = {}
  /\ ret = NoRet
  /\ result = NoResult
  /\ nCalls = 0
  /\ touched = {}
  /\ dangling = FALSE
  /\ hostFailed = FALSE
  /\ gvars = [n \in VarNames |-> NoObject]
  /\ lastSet = [n \in VarNames |-> NoValue]
  /\ prevFailed = FALSE
  /\ editor = Editor(parts)
  /\ hist = NoHist
  /\ dictionary = NoDictionary

Init == InitWith({})

Next ==
  \/ chan_send
  \/ create_buf
  \/ open_win
  \/ get_config
  \/ get_var
  \/ set_var
  \/ del_var
  \/ open_term
  \/ del_mark
  \/ get_keymap
  \/ get_mark
  \/ load_context
  \/ set_keymap
  \/ err_write
  \/ out_write
  \/ set_current_line
  \/ set_option
  \/ get_all_options_info
  \/ list_bufs
  \/ BoundaryCall
  \/ Return
  \/ NonOwning_new_call
  \/ ScopeEnd

Spec == Init /\ [][Next]_vars

\* The typed getters, with set_var to give get_var something to read.
NextDecode ==
  \/ set_var
  \/ get_var
  \/ get_vvar
  \/ get_option
  \/ get_option_value
  \/ BoundaryCall
  \/ Return

SpecDecode == Init /\ [][NextDecode]_vars

\* The values of oxi-types a caller builds without crossing the boundary.
NextTypes ==
  \/ Error_new
  \/ Error_default
  \/ Error_from_str
  \/ Error_from_err
  \/ Error_is_err
  \/ Dictionary_push
  \/ Dictionary_index_mut
  \/ ExtmarkHlMode_into
  \/ ExtmarkHlMode_deserialize_call

SpecTypes == Init /\ [][NextTypes]_vars

\* The wrappers that look into the returned value once the error record
\* has been inspected: get_config and the two wrappers with a sentinel.
NextInspect ==
  \/ get_config
  \/ open_term
  \/ del_mark
  \/ BoundaryCall
  \/ Return

SpecInspect == Init /\ [][NextInspect]_vars

\* The option wrappers against an editor whose options are followed.
InitOptions == InitWith({"opts"})

NextOptions ==
  \/ set_option
  \/ get_option
  \/ BoundaryCall
  \/ Return

SpecOptions == InitOptions /\ [][NextOptions]_vars

\* The user command wrappers against an editor whose commands are followed.
InitCommands == InitWith({"cmds"})

NextCommands ==
  \/ create_user_command
  \/ del_user_command
  \/ get_commands
  \/ BoundaryCall
  \/ Return

SpecCommands == InitCommands /\ [][NextCommands]_vars

\* The line wrappers and input against an editor whose buffer and input
\* buffer are followed.
InitLines == InitWith({"lines"})

NextLines ==
  \/ buf_set_lines
  \/ buf_get_lines
  \/ buf_line_count
  \/ set_current_line
  \/ input
  \/ BoundaryCall
  \/ Return
  \/ RunInput

SpecLines == InitLines /\ [][NextLines]_vars

\* The mark wrappers against an editor whose marks are followed.
InitMarks == InitWith({"marks"})

NextMarks ==
  \/ buf_set_mark
  \/ buf_get_mark
  \/ buf_del_mark
  \/ get_mark
  \/ del_mark
  \/ BoundaryCall
  \/ Return

SpecMarks == InitMarks /\ [][NextMarks]_vars

\* The wrappers that convert an argument before their boundary call, against
\* the g: variables and an editor whose options are followed.
NextConvert ==
  \/ set_var
  \/ set_vvar
  \/ set_option
  \/ set_option_value
  \/ input_mouse
  \/ select_popupmenu_item
  \/ BoundaryCall
  \/ Return

SpecConvert == InitOptions /\ [][NextConvert]_vars

\* The wrappers that narrow the returned Integer to an unsigned type, against
\* a host that may return any Integer.
NextUnsigned ==
  \/ get_color_by_name
  \/ get_hl_id_by_name
  \/ input
  \/ BoundaryCall
  \/ Return

SpecUnsigned == Init /\ [][NextUnsigned]_vars

\* -------------------------------------------------------------- properties
\* Finished: a wrapper has issued its boundary call and returned.
\* WithRecord: the wrapper passed an error record to the host.
\* Returned: the invocation came back to its caller (it did not panic).
Finished == pc = "idle" /\ nCalls > 0
WithRecord == err.msg # NoRecord.msg
Returned == result.kind # "Panic"
Errors == {"Nvim", "Conversion", "Custom"}
FreedOnce == \A n \in DOMAIN owned :
               owned[n].frees = 1 /\ owned[n].binding = "dropped"

\* C1: when the error record is set after the boundary call, the wrapper
\* returns the boundary error and has not read, mutated or converted the
\* value the host returned; get_config included.
C1_ErrorLeavesReturnUntouched ==
  (Finished /\ WithRecord /\ is_err(err))
    => (result.kind = "Nvim" /\ touched = {})

\* C2: when the error record is still none after the boundary call, the
\* wrapper never returns a boundary error: what it returns is a success or a
\* conversion or domain error, and create_buf and open_win return exactly
\* the handle the host returned.
C2_NoneRecordIsSuccess ==
  (Finished /\ WithRecord /\ ~is_err(err) /\ Returned)
    => /\ result.kind \in {"Ok", "Conversion", "Custom"}
       /\ cur = "create_buf" => result = Ok(TV("Buffer", ret))
       /\ cur = "open_win" => result = Ok(TV("Window", ret))

C2_Witness ==
  /\ Finished /\ cur = "create_buf" /\ ~is_err(err)
  /\ ret = 0 /\ result = Ok(TV("Buffer", 0))

\* C3: the error record handed to the host when a boundary call is issued has
\* type none and a null message, whatever the calls before it did, and a
\* wrapper reports a boundary error only if the host failed during that call.
C3_FreshErrorRecord ==
  /\ (pc = "call" /\ WithRecord)
       => (err.type = ErrorTypeNone /\ err.msg = Null)
  /\ (Finished /\ result.kind = "Nvim") => hostFailed

\* call n failed with a boundary error and call n+1 has just been issued
C3_Witness ==
  /\ pc = "call" /\ WithRecord /\ prevFailed
  /\ err.type = ErrorTypeNone

\* C4: one invocation of a wrapper issues at most one boundary call, and a
\* failure of that call is returned by the same invocation.
C4_NoRetry ==
  /\ nCalls <= 1
  /\ (pc = "idle" /\ WithRecord /\ hostFailed)
       => (nCalls = 1 /\ result.kind = "Nvim")

C4_Witness ==
  /\ pc = "idle" /\ cur = "set_var" /\ hostFailed
  /\ nCalls = 1 /\ result.kind = "Nvim"

\* C5: with a none error record, open_term and del_mark return a domain
\* error when the host returned the sentinel (0, false) and success for
\* every other returned value.
C5_SentinelElseSuccess ==
  (pc = "idle" /\ nCalls > 0 /\ cur \in {"open_term", "del_mark"}
     /\ ~is_err(err))
    => IF (IF cur = "open_term" THEN ret = 0 ELSE ret = FALSE)
         THEN result.kind = "Custom"
         ELSE result.kind = "Ok"

\* C6: every failure during a wrapper call reaches the caller as a typed
\* error result: the call does not abort, and a failed host operation is
\* not reported as a success.
C6_EveryFailureSurfaced ==
  (pc = "idle" /\ cur # "NonOwning::new")
    => (Returned /\ (hostFailed => result.kind \in Errors))

\* C7: dropping a NonOwning frees nothing, and when a wrapper returns (with
\* a success or with an error) every owned input built for the call has been
\* freed exactly once, by its owner.
C7_FreedExactlyOnce ==
  /\ \A n \in DOMAIN owned : owned[n].frees <= 1
  /\ (pc = "idle" /\ cur \notin {"none", "NonOwning::new"} /\ Returned)
       => FreedOnce

\* an error path: the host failed set_keymap after borrowing three strings
C7_Witness ==
  /\ pc = "idle" /\ cur = "set_keymap" /\ result.kind = "Nvim"
  /\ DOMAIN owned = {"mode", "lhs", "rhs"} /\ FreedOnce

\* C8: NonOwning::new(value) leaves the original binding in place: while the
\* wrapper exists the owner still owns the data, and it frees it once when
\* its scope ends.
C8_OwnerKeepsOwnership ==
  /\ pc = "scope" => \A n \in Borrowed(borrows) : owned[n].binding = "live"
  /\ (pc = "idle" /\ cur = "NonOwning::new") => FreedOnce

\* C9: an owned input passed as a non-owning borrow is not freed before the
\* boundary call that receives it has returned; the host never reads a freed
\* borrow, temporaries of the call expression included.
C9_BorrowOutlivesCall ==
  /\ ~dangling
  /\ pc = "call" => \A n \in Borrowed(borrows) : owned[n].frees = 0

\* the host has run err_write over its temporary string
C9_Witness ==
  /\ pc = "ret" /\ cur = "err_write" /\ ~dangling
  /\ owned["str"].frees = 0

\* C10: a value stored by a successful set_var is what get_var of the same
\* type returns, as long as no set_var or del_var touched the name, and
\* del_var of that name then returns Ok.
C10_RoundTrip ==
  [][(pc = "ret" /\ pc' = "idle" /\ cur \in {"get_var", "del_var"}
        /\ lastSet[args.name] # NoValue)
       => /\ (cur = "get_var" /\ args.ty = lastSet[args.name].ty)
               => result' = Ok(lastSet[args.name])
          /\ cur = "del_var" => result' = Ok(Unit)]_vars

C10_Witness ==
  /\ pc = "idle" /\ cur = "get_var" /\ lastSet[args.name] # NoValue
  /\ args.ty = "usize" /\ result = Ok(lastSet[args.name])

\* The kind of Object a requested type is decoded from.
ExpectedKind(ty) ==
  CASE ty \in {"i64", "usize"} -> "integer"
    [] ty = "String" -> "string"
    [] ty = "bool" -> "boolean"

Getters == {"get_var", "get_vvar", "get_option", "get_option_value"}

\* C11: when the host returns, with a none error record, an Object whose
\* kind is not the kind the requested type is decoded from, get_var,
\* get_vvar, get_option and get_option_value return a ConversionError that
\* names the expected and the actual kind: no success, no boundary error.
C11_KindMismatch ==
  (Finished /\ cur \in Getters /\ ~is_err(err)
     /\ ret.kind # ExpectedKind(args.ty))
    => result = ConversionError(ExpectedKind(args.ty), ret.kind)

\* get_vvar::<bool> was handed a string
C11_Witness ==
  /\ Finished /\ cur = "get_vvar" /\ ~is_err(err)
  /\ args.ty = "bool" /\ ret = StrObj("a")
  /\ result = ConversionError("boolean", "string")

\* C14: get_option::<bool>(name) returns the value of the most recent
\* successful set_option(name, b): setting true then false reads back false.
C14_LastWriteWins ==
  (Finished /\ cur = "get_option" /\ args.ty = "bool"
     /\ hist.opts[args.name] # NoValue)
    => result = Ok(hist.opts[args.name])

\* true was set, then false, and false is read back
C14_Witness ==
  /\ Finished /\ cur = "get_option" /\ args.ty = "bool"
  /\ hist.optsBefore[args.name] = TV("bool", TRUE)
  /\ hist.opts[args.name] = TV("bool", FALSE)
  /\ result = Ok(TV("bool", FALSE))

\* The first pair of d with key k (0 when there is none).
FirstAt(d, k) ==
  IF \E i \in 1..Len(d) : d[i][1] = k
    THEN CHOOSE i \in 1..Len(d) :
           d[i][1] = k /\ \A j \in 1..(i - 1) : d[j][1] # k
    ELSE 0

\* d with "relative" holding the handle found under "win": the existing
\* entry overwritten in place or a new entry at the end; d when there is
\* no "win".
Rewritten(d) ==
  LET w == FirstAt(d, "win")
      r == FirstAt(d, "relative")
      pair == <<"relative", IntObj(d[w][2].val)>>
  IN IF w = 0 THEN d
     ELSE IF r = 0 THEN d \o <<pair>>
          ELSE [i \in 1..Len(d) |-> IF i = r THEN pair ELSE d[i]]

\* The value under "win", when there is one, is a window handle.
WinIsHandle(d) == FirstAt(d, "win") # 0 => d[FirstAt(d, "win")][2].val \in Handles

\* C18: on a successful call get_config decodes the dictionary the host
\* returned with "relative" set to the window handle found under "win"
\* (overwritten in place, or appended when there was none), and decodes it
\* unchanged when there is no "win"; no other pair is added, removed or
\* changed.
C18_GetConfigRewrite ==
  (Finished /\ cur = "get_config" /\ ~is_err(err) /\ WinIsHandle(ret))
    => result = from_object(DictObj(Rewritten(ret)), "WindowConfig")

\* "relative" overwritten in place, before the "win" pair that names it
C18_Witness ==
  /\ Finished /\ cur = "get_config" /\ ~is_err(err)
  /\ ret = << <<"relative", StrObj("a")>>, <<"win", IntObj(1)>> >>
  /\ result = Ok(TV("WindowConfig",
                     << <<"relative", IntObj(1)>>, <<"win", IntObj(1)>> >>))

\* C20: when the boundary call of open_term or del_mark sets the error
\* record and returns the sentinel (0, false), the wrapper returns the
\* boundary error and not the domain error.
C20_ErrorBeforeSentinel ==
  (Finished /\ cur \in {"open_term", "del_mark"} /\ is_err(err)
     /\ (IF cur = "open_term" THEN ret = 0 ELSE ret = FALSE))
    => result = NvimError(err)

\* the host failed del_mark and returned false
C20_Witness ==
  /\ Finished /\ cur = "del_mark" /\ is_err(err) /\ ret = FALSE
  /\ result = NvimError(err)

\* The position a mark is known to be at, as get_mark decodes it.
KnownRow(n) == TV("usize", hist.marks[n].at[1])
KnownCol(n) == TV("usize", hist.marks[n].at[2])

EntryName(entry) == dict_get(entry.v, "name")[1].val

\* C15: get_commands yields one entry for each command name created and not
\* deleted since, for commands given as a string and as a function alike,
\* and del_user_command of an existing command returns Ok.
C15_OneEntryPerCommand ==
  [][(pc = "ret" /\ pc' = "idle")
       => /\ cur = "get_commands"
               => /\ result'.kind = "Ok"
                  /\ Len(result'.val.v) = Cardinality(hist.cmds)
                  /\ {EntryName(result'.val.v[i]) :
                        i \in 1..Len(result'.val.v)} = hist.cmds
          /\ (cur = "del_user_command" /\ args.name \in hist.cmds)
               => result' = Ok(Unit)]_vars

\* two commands, one given as a string and one as a function: 2 entries
C15_Witness ==
  /\ Finished /\ cur = "get_commands" /\ result.kind = "Ok"
  /\ hist.cmds = CmdNames /\ Len(result.val.v) = 2
  /\ \E i, j \in 1..2 :
       /\ dict_get(result.val.v[i].v, "callback") # <<>>
       /\ dict_get(result.val.v[j].v, "callback") = <<>>

\* C12: after set_lines over the whole buffer with a non-empty list L
\* succeeded, get_lines over the whole buffer yields the elements of L in
\* the same order and line_count returns the length of L; after set_lines
\* with an empty list line_count returns 1.
C12_LinesRoundTrip ==
  (Finished /\ hist.lines.known)
    => /\ (cur = "buf_get_lines" /\ hist.lines.L # <<>>)
            => result = Ok(TV("iter", [i \in 1..Len(hist.lines.L) |->
                                         TV("String", hist.lines.L[i])]))
       /\ cur = "buf_line_count"
            => result = Ok(TV("usize", IF hist.lines.L = <<>> THEN 1
                                       ELSE Len(hist.lines.L)))

\* two lines that are not in sorted order are read back as they were set
C12_Witness ==
  /\ Finished /\ cur = "buf_get_lines" /\ hist.lines.known
  /\ hist.lines.L = <<"a", "">>
  /\ result = Ok(TV("iter", <<TV("String", "a"), TV("String", "")>>))

\* C17: when a wrapper call is issued, every side effect of the calls
\* before it has been applied to the host state: nothing an earlier call
\* asked for is still waiting, the keys of api::input included.
C17_SequentiallyConsistent ==
  pc = "call" => editor.typeahead = <<>>

\* C17, amended: a wrapper returns only after its one boundary call has
\* returned, so what the host function did before returning is in the host
\* state when the next call is issued: the lines written by set_lines and
\* set_current_line are in the buffer, and the keys of api::input are in
\* the input buffer, where they wait for the editor to run them.
C17_AppliedOrQueued ==
  /\ pc \in {"idle", "call"} => editor.typeahead = hist.typeahead
  /\ (pc = "idle" /\ cur # "none") => nCalls = 1
  /\ (pc = "idle" /\ result.kind = "Ok")
       => /\ cur = "set_current_line" => editor.lines[1] = args.line
          /\ cur = "buf_set_lines"
               => editor.lines = (IF args.replacement = <<>> THEN <<"">>
                                  ELSE args.replacement)
          /\ cur = "input"
               => /\ result.val.v <= Len(editor.typeahead)
                  /\ SubSeq(editor.typeahead,
                            Len(editor.typeahead) - result.val.v + 1,
                            Len(editor.typeahead))
                       = SubSeq(args.keys, 1, result.val.v)

\* get_lines has read the line "a" while the x queued before it waits
C17_Witness ==
  /\ pc = "ret" /\ cur = "buf_get_lines" /\ editor.typeahead = <<"x">>
  /\ hist.lines.known /\ ret = <<StrObj("a")>>

\* C16: a Dictionary keeps insertion order: its pairs are in the order in
\* which their keys were first inserted, whatever the keys are, and
\* index-assignment to an existing key changes the value of that pair and
\* not its position.
C16_InsertionOrder ==
  /\ [i \in 1..Len(dictionary.d) |-> dictionary.d[i][1]] = dictionary.keys
  /\ (cur = "Dictionary::index_mut" /\ args.existed)
       => \E i \in 1..Len(dictionary.d) :
            /\ dictionary.keys[i] = args.key
            /\ dictionary.d[i] = <<args.key, args.value>>

\* c, a, b were inserted in that order and c, the first, was then assigned
C16_Witness ==
  /\ dictionary.keys = <<"c", "a", "b">>
  /\ cur = "Dictionary::index_mut" /\ args.existed /\ args.key = "c"
  /\ dictionary.d[1] = <<"c", args.value>>

ErrorCalls == {"Error::new", "Error::default", "Error::from_str",
               "Error::from_err", "Error::is_err"}

\* C19: is_err() is true exactly when the type of the record is not none:
\* Error::new() and Error::default() have type none, a null message and
\* is_err() false; from_str and from_err give type exception, a message
\* that is not null and is_err() true.
C19_IsErrIffNotNone ==
  cur \in ErrorCalls
    => /\ result = Value(TV("bool", err.type # ErrorTypeNone))
       /\ cur \in {"Error::new", "Error::default"}
            => /\ err.type = ErrorTypeNone /\ err.msg = Null
               /\ result.val.v = FALSE
       /\ cur \in {"Error::from_str", "Error::from_err"}
            => /\ err.type = ErrorTypeException /\ err.msg # Null
               /\ result.val.v = TRUE

\* from_err of an error that displays as "ab"
C19_Witness ==
  /\ cur = "Error::from_err" /\ args.e.to_string = <<97, 98>>
  /\ err = [type |-> ErrorTypeException, msg |-> "ab"]
  /\ result = Value(TV("bool", TRUE))
\* ------------------------------------------------------------------- C21
\* The wrappers that convert an argument before the boundary call, and
\* whether the conversion of the arguments a fails.
Converting == {"set_var", "set_vvar", "set_option", "set_option_value",
               "input_mouse", "select_popupmenu_item"}

ConversionFails(w, a) ==
  CASE w \in {"set_var", "set_vvar", "set_option", "set_option_value"} ->
         to_object(a.value).kind # "Ok"
    [] w = "input_mouse" ->
         to_Integer(a.row).kind # "Ok" \/ to_Integer(a.col).kind # "Ok"
    [] w = "select_popupmenu_item" -> to_Integer(a.item).kind # "Ok"
    [] OTHER -> FALSE

\* C21: when the conversion of an argument fails before the call (to_object
\* in set_var, set_vvar, set_option, set_option_value; row, col or item not
\* fitting the host integer in input_mouse and select_popupmenu_item), the
\* wrapper returns a conversion error, issues no boundary call, and leaves
\* the host state (g: variables, editor) unchanged.
C21_NoCallOnConversionFailure ==
  [][(/\ pc = "idle"
      /\ cur' \in Converting
      /\ ConversionFails(cur', args'))
     => /\ pc' = "idle"
        /\ result'.kind = "Conversion"
        /\ nCalls' = 0
        /\ gvars' = gvars
        /\ editor' = editor]_vars

\* set_var of a value that does not convert has returned, and the variable
\* it names still holds what an earlier set_var stored.
C21_Witness ==
  /\ pc = "idle"
  /\ cur = "set_var"
  /\ ConversionFails(cur, args)
  /\ result.kind = "Conversion"
  /\ nCalls = 0
  /\ gvars[args.name] # NoObject
  /\ editor.opts["modified"] = BoolObj(TRUE)

\* ------------------------------------------------------------------- C22
\* C22: get_color_by_name returns an error result exactly when the host
\* returned -1 and Ok(c) as a u32 for every other returned value c, without
\* aborting; get_hl_id_by_name and input return a conversion error, not an
\* abort, when the returned value does not fit the unsigned result type.
C22_UnsignedResults ==
  (pc = "idle" /\ nCalls > 0)
    => /\ cur = "get_color_by_name"
            => IF ret = -1 THEN result.kind = "Custom"
               ELSE result.kind = "Ok" /\ result.val = TV("u32", ret)
       /\ (cur = "get_hl_id_by_name" /\ ret \notin U32)
            => result.kind = "Conversion"
       /\ (cur = "input" /\ ret \notin Usize) => result.kind = "Conversion"

\* ------------------------------------------------------------------- C23
HasNul(s) == \E i \in 1..Len(s) : s[i] = 0

\* C23: Error::from_str never fails: for a message with an interior NUL
\* byte it still returns a record of type exception whose message is not
\* null and is the empty string; for a message without a NUL byte the
\* stored message is the message itself.
C23_FromStrNeverFails ==
  cur = "Error::from_str"
    => /\ err.type = ErrorTypeException
       /\ err.msg # Null
       /\ IF HasNul(args.s) THEN err.msg = ""
          ELSE Len(err.msg) = Len(args.s) /\ err.msg = c_chars(args.s)

\* from_str of "a\0": a first byte that is not NUL, then a NUL
C23_Witness ==
  /\ cur = "Error::from_str" /\ args.s = <<97, 0>>
  /\ err = [type |-> ErrorTypeException, msg |-> ""]

\* ------------------------------------------------------------------- C24
\* C24: the conversion of ExtmarkHlMode to a host String is injective and
\* yields the lowercase variant name ("replace", "combine", "blend"), which
\* is exactly the name the lowercase deserialization accepts, so that
\* deserializing the string produced from a mode m gives back m.
C24_ModeRoundTrip ==
  /\ cur = "ExtmarkHlMode::into"
       => /\ result.val.v = rename_all_lowercase(args.mode)
          /\ result.val.v \in {"replace", "combine", "blend"}
          /\ \A m \in ExtmarkHlModes \ {args.mode} :
               String_from_ExtmarkHlMode(m) # result.val.v
          /\ ExtmarkHlMode_deserialize(result.val.v).kind = "Ok"
  /\ (cur = "ExtmarkHlMode::deserialize" /\ args.from # "none")
       => result = Ok(TV("ExtmarkHlMode", args.from))
  /\ (cur = "ExtmarkHlMode::deserialize" /\ result.kind = "Ok")
       => \E m \in ExtmarkHlModes : args.s = String_from_ExtmarkHlMode(m)

\* Blend has been converted and the string it gave deserialized
C24_Witness ==
  /\ cur = "ExtmarkHlMode::deserialize"
  /\ args = [s |-> "blend", from |-> "Blend"]
  /\ result = Ok(TV("ExtmarkHlMode", "Blend"))

====
